---- MODULE Spec2Model ----
(***************************************************************************)
(* Model of the WELM regressor of src/WELM.py (class WelmRegressor and the *)
(* activation table ActFunc).                                              *)
(*                                                                         *)
(* Numbers are exact rationals <<n, d>> in lowest terms with d > 0, so the *)
(* linear algebra is the one the code's formulas denote; floating-point    *)
(* rounding is not modelled.  A matrix is a sequence of rows, each row a   *)
(* sequence of rationals.  Euclidean distances are exact sums of square    *)
(* roots (see SqrtR).                                                      *)
(***************************************************************************)
EXTENDS Integers, Sequences, FiniteSets, TLC

(***************************************************************************)
(* Bounds of the model.                                                    *)
(***************************************************************************)
MaxM == 2
MaxN == 2
MaxD == 2
MaxL == 3
MaxQ == 1

(***************************************************************************)
(* Exact rational arithmetic.                                              *)
(***************************************************************************)
Abs(a) == IF a < 0 THEN 0 - a ELSE a

RECURSIVE GCD(_, _)
GCD(a, b) == IF b = 0 THEN a ELSE GCD(b, a % b)

Fr(n, d) ==
  LET g == GCD(Abs(n), Abs(d))
      s == IF d < 0 THEN 0 - 1 ELSE 1
  IN  <<(s * n) \div g, (s * d) \div g>>

Zero == <<0, 1>>
One == <<1, 1>>
Int2R(k) == <<k, 1>>

RNeg(a) == <<0 - a[1], a[2]>>
\* sums are taken over the least common denominator, and products are
\* reduced crosswise first, so that intermediate integers stay small
RAdd(a, b) ==
  LET g == GCD(a[2], b[2])
  IN  Fr(a[1] * (b[2] \div g) + b[1] * (a[2] \div g), (a[2] \div g) * b[2])
RSub(a, b) == RAdd(a, RNeg(b))
RMul(a, b) ==
  LET x == Fr(a[1], b[2])
      y == Fr(b[1], a[2])
  IN  <<x[1] * y[1], x[2] * y[2]>>
RDiv(a, b) == RMul(a, Fr(b[2], b[1]))
RAbs(a) == <<Abs(a[1]), a[2]>>
RLess(a, b) == a[1] * b[2] < b[1] * a[2]
RMin(a, b) == IF RLess(b, a) THEN b ELSE a
RMax(a, b) == IF RLess(a, b) THEN b ELSE a

RECURSIVE RSumSeq(_)
RSumSeq(s) == IF s = <<>> THEN Zero ELSE RAdd(s[1], RSumSeq(Tail(s)))

(***************************************************************************)
(* Matrices (numpy 2-d arrays and np.matrix).                              *)
(***************************************************************************)
\* a sequence written as a function, as the tuple of its values
Tup(s) == s \o <<>>

Rows(A) == Len(A)
Cols(A) == IF Len(A) = 0 THEN 0 ELSE Len(A[1])
Shape(A) == <<Rows(A), Cols(A)>>

Transpose(A) ==
  Tup([j \in 1..Cols(A) |-> Tup([i \in 1..Rows(A) |-> A[i][j]])])

\* np.dot / np.matrix product; the caller checks Cols(A) = Rows(B)
MatMul(A, B) ==
  Tup([i \in 1..Rows(A) |->
     Tup([j \in 1..Cols(B) |->
        RSumSeq(Tup([k \in 1..Cols(A) |-> RMul(A[i][k], B[k][j])]))])])

CanMul(A, B) == Cols(A) = Rows(B)

MatAdd(A, B) ==
  Tup([i \in 1..Rows(A) |->
     Tup([j \in 1..Cols(A) |-> RAdd(A[i][j], B[i][j])])])

MatSub(A, B) ==
  Tup([i \in 1..Rows(A) |->
     Tup([j \in 1..Cols(A) |-> RSub(A[i][j], B[i][j])])])

MatScale(A, c) ==
  Tup([i \in 1..Rows(A) |-> Tup([j \in 1..Cols(A) |-> RMul(A[i][j], c)])])

\* np.identity(n)
Identity(n) ==
  Tup([i \in 1..n |-> Tup([j \in 1..n |-> IF i = j THEN One ELSE Zero])])

\* np.ones([r, c])
Ones(r, c) == Tup([i \in 1..r |-> Tup([j \in 1..c |-> One])])

\* np.append(A, B, axis=1)
AppendAxis1(A, B) == Tup([i \in 1..Rows(A) |-> A[i] \o B[i]])

Trace(A) == RSumSeq(Tup([i \in 1..Rows(A) |-> A[i][i]]))

(***************************************************************************)
(* np.linalg.lstsq(a, b)[0]: the minimum-norm least-squares solution       *)
(* pinv(a) * b, which is the exact solution when a is nonsingular.  The    *)
(* pseudo-inverse is computed exactly from the characteristic polynomial   *)
(* of a * a^T (Faddeev-LeVerrier recursion, Decell's formula).             *)
(***************************************************************************)
\* FLSeq(S, k)[j] = [m |-> M_j, c |-> c_j] for j in 1..k, where
\* M_1 = I, M_{j+1} = S*M_j + c_j*I and c_j = -trace(S*M_j)/j
FLEntry(S, k, mk) ==
  [m |-> mk, c |-> RDiv(RNeg(Trace(MatMul(S, mk))), Int2R(k))]

FLNext(S, k, prev) ==
  Append(prev,
         FLEntry(S, k, MatAdd(MatMul(S, prev[k - 1].m),
                              MatScale(Identity(Rows(S)), prev[k - 1].c))))

RECURSIVE FLSeq(_, _)
FLSeq(S, k) ==
  IF k = 1 THEN << FLEntry(S, 1, Identity(Rows(S))) >>
  ELSE FLNext(S, k, FLSeq(S, k - 1))

\* the last index with a nonzero coefficient (0 when there is none): the rank
FLRank(fl) ==
  IF \A j \in 1..Len(fl) : fl[j].c = Zero THEN 0
  ELSE CHOOSE j \in 1..Len(fl) :
         fl[j].c # Zero /\ \A i \in (j + 1)..Len(fl) : fl[i].c = Zero

PinvOfRank(A, fl, k) ==
  IF k = 0
    THEN Tup([i \in 1..Cols(A) |-> Tup([j \in 1..Rows(A) |-> Zero])])
    ELSE MatScale(MatMul(Transpose(A), fl[k].m), RDiv(Int2R(0 - 1), fl[k].c))

PinvFrom(A, fl) == PinvOfRank(A, fl, FLRank(fl))

\* the inverse of a square A when it has one (fl is the recursion on A
\* itself), the pseudo-inverse otherwise
PinvSquare(A, fl) ==
  IF fl[Rows(A)].c # Zero
    THEN MatScale(fl[Rows(A)].m, RDiv(Int2R(0 - 1), fl[Rows(A)].c))
    ELSE PinvFrom(A, FLSeq(MatMul(A, Transpose(A)), Rows(A)))

Pinv(A) ==
  IF Rows(A) = Cols(A) THEN PinvSquare(A, FLSeq(A, Rows(A)))
  ELSE PinvFrom(A, FLSeq(MatMul(A, Transpose(A)), Rows(A)))

lstsq(a, b) == MatMul(Pinv(a), b)

(***************************************************************************)
(* class ActFunc: the piecewise-linear activations, applied elementwise.   *)
(***************************************************************************)
\* np.clip(x, lo, hi)
Clip(x, lo, hi) == RMin(RMax(x, lo), hi)

tribas(x) == Clip(RSub(One, RAbs(x)), Zero, One)
inv_tribas(x) == Clip(RAbs(x), Zero, One)
hardlim(x) == IF RLess(Zero, x) THEN One ELSE Zero
softlim(x) == Clip(x, Zero, One)

ActFunc == {"tribas", "inv_tribas", "hardlim", "softlim"}

Activation(f, x) ==
  CASE f = "tribas" -> tribas(x)
    [] f = "inv_tribas" -> inv_tribas(x)
    [] f = "hardlim" -> hardlim(x)
    [] OTHER -> softlim(x)

\* an activation applied to a matrix, elementwise
ActivationMat(f, A) ==
  Tup([i \in 1..Rows(A) |->
     Tup([j \in 1..Cols(A) |-> Activation(f, A[i][j])])])

(***************************************************************************)
(* Inputs: finite families of matrices with entries drawn from short       *)
(* tables, indexed by shape and seed.                                      *)
(***************************************************************************)
Gen(r, c, seed, vals) ==
  Tup([i \in 1..r |->
     Tup([j \in 1..c |->
        vals[((seed + (i - 1) * c + (j - 1)) % Len(vals)) + 1]])])

XVals == <<Int2R(1), Int2R(0), Int2R(0 - 1), Int2R(2)>>
TVals == <<Int2R(1), Int2R(0), Int2R(2)>>
\* np.random.rand(L, N) * 2 - 1 lies in [-1, 1)
WeightVals == <<Fr(1, 2), Int2R(0 - 1), Int2R(0), Fr(0 - 1, 2)>>
\* np.random.rand(L, 1) lies in [0, 1)
BiasVals == <<Int2R(0), Fr(1, 2), Fr(1, 4)>>

\* CPython keeps one object per integer in -5..256; larger integers are a
\* new object at every creation
SmallIntMin == 0 - 5
SmallIntMax == 256

\* a is b, for two integers that were created separately
IsSameInt(a, b) == a = b /\ a >= SmallIntMin /\ a <= SmallIntMax

BigRows == SmallIntMax + 1

TrainMats ==
  {Gen(m, n, 0, XVals) : m \in 1..MaxM, n \in 1..MaxN}
    \cup {Gen(BigRows, 1, 0, XVals)}

OutputMats ==
  {Gen(m, d, 0, TVals) : m \in 1..MaxM, d \in 1..MaxD}
    \cup {Gen(BigRows, 1, 0, TVals)}

\* queries for a model trained on n columns: up to MaxQ rows of n columns,
\* and one query with a column too many
TestMats(n) ==
  {Gen(q, n, 1, XVals) : q \in 1..MaxQ} \cup {Gen(1, n + 1, 1, XVals)}

\* the absent weight_mat argument (None)
None == <<>>

\* diagonal sample weights: kind 1 positive, kind 2 with a negative weight
DiagWeight(m, kind) ==
  Tup([i \in 1..m |->
     Tup([j \in 1..m |->
        IF i # j THEN Zero
        ELSE IF kind = 1 THEN Int2R(1 + (i % 2))
        ELSE IF i = 1 THEN Int2R(0 - 2) ELSE One])])

\* the settings of a construction: hyper_param_c, the kind of weight_mat
\* (0 for None) and the member of the family of random draws
Settings ==
  {[c |-> Int2R(1), kind |-> 0, seed |-> 0],
   [c |-> Int2R(2), kind |-> 1, seed |-> 1],
   [c |-> Int2R(1), kind |-> 2, seed |-> 0],
   [c |-> Int2R(2), kind |-> 2, seed |-> 1]}

HiddenSizes == 1..MaxL

(***************************************************************************)
(* WelmRegressor: the private helpers, as functions of the fields they     *)
(* read.                                                                   *)
(***************************************************************************)
\* the values np.random.rand returns, one family member per seed
__get_input_weight_and_bias__(num_hidden, num_input, seed) ==
  [input_weight |-> Gen(num_hidden, num_input, seed, WeightVals),
   bias_of_hidden_neurons |-> Gen(num_hidden, 1, seed, BiasVals)]

__build_hidden_layer_output_matrix__(iw, bias, act, data_mat) ==
  LET temp_h == MatMul(iw, Transpose(data_mat))
      ones == Ones(Rows(bias), Rows(data_mat) - Cols(bias))
      bias_matrix == AppendAxis1(bias, ones)
      temp_h2 == MatAdd(temp_h, bias_matrix)
      temp_h3 == Transpose(temp_h2)
  IN  ActivationMat(act, temp_h3)

__beta_m_is_greater_than_l__(h, w, t, c) ==
  LET inner_mat == MatMul(MatMul(Transpose(h), w), h)
      i_by_c == MatScale(Identity(Rows(inner_mat)), RDiv(One, c))
      sum_inner_c_mat == MatAdd(inner_mat, i_by_c)
      outer_mat == MatMul(MatMul(Transpose(h), w), t)
  IN  lstsq(sum_inner_c_mat, outer_mat)

\* the wide-regime solve with the sample weights left out of the right side
beta_l_unweighted_targets(h, w, t, c) ==
  LET inner_mat == MatMul(MatMul(w, h), Transpose(h))
      i_by_c == MatScale(Identity(Rows(t)), RDiv(One, c))
      sum_inner_c_mat == MatAdd(inner_mat, i_by_c)
  IN  MatMul(Transpose(h), lstsq(sum_inner_c_mat, t))

__beta_l_is_greater_than_m__(h, w, t, c) ==
  LET inner_mat == MatMul(MatMul(w, h), Transpose(h))
      i_by_c == MatScale(Identity(Rows(t)), RDiv(One, c))
      sum_inner_c_mat == MatAdd(inner_mat, i_by_c)
      w_mat_dot_t_mat == MatMul(w, t)
  IN  MatMul(Transpose(h), lstsq(sum_inner_c_mat, w_mat_dot_t_mat))

\* the branch test with <= in place of <
UseWide_le(num_train, num_hidden) == num_train <= num_hidden

\* the branch test of __build_output_weight_matrix__
UseWide(num_train, num_hidden) == num_train < num_hidden

__build_output_weight_matrix__(h, w, t, c, num_train, num_hidden) ==
  IF UseWide(num_train, num_hidden)
    THEN [branch |-> "wide", beta |-> __beta_l_is_greater_than_m__(h, w, t, c)]
    ELSE [branch |-> "tall", beta |-> __beta_m_is_greater_than_l__(h, w, t, c)]

\* the products of both solves are defined: W is M x M and T has M rows
SolveShapesOk(h, w, t) ==
  /\ CanMul(w, h) /\ CanMul(Transpose(h), w) /\ CanMul(w, t)
  /\ Rows(w) = Rows(t)

(***************************************************************************)
(* Real numbers met by the metrics: finite sums q1*sqrt(s1) + ... with     *)
(* distinct squarefree s and nonzero rational q, kept as the set of pairs  *)
(* <<s, q>>.  The representation is canonical, so equality of sets is      *)
(* equality of the numbers; the empty set is 0.                            *)
(***************************************************************************)
\* the integer square root of n >= 0, by bisection: lo*lo <= n < hi*hi
RECURSIVE IsqrtBetween(_, _, _)
IsqrtBetween(n, lo, hi) ==
  IF hi - lo <= 1 THEN lo
  ELSE LET mid == (lo + hi) \div 2
       IN  IF mid <= n \div mid THEN IsqrtBetween(n, mid, hi)
           ELSE IsqrtBetween(n, lo, mid)

Isqrt(n) == IF n = 0 THEN 0 ELSE IsqrtBetween(n, 1, n + 1)

\* the largest k with k*k dividing n, for n >= 1
SqPart(n) ==
  LET roots == {k \in 1..Isqrt(n) : n % (k * k) = 0}
  IN  CHOOSE k \in roots : \A j \in roots : j <= k

RealOfRat(q) == IF q = Zero THEN {} ELSE {<<1, q>>}

\* np.sqrt of a rational q >= 0 in lowest terms:
\* sqrt(p/d) = (kp / (kd*sd)) * sqrt(sp*sd), where p = kp*kp*sp, d = kd*kd*sd
SqrtR(q) ==
  IF q[1] = 0 THEN {}
  ELSE LET kp == SqPart(q[1])
           kd == SqPart(q[2])
           sp == q[1] \div (kp * kp)
           sd == q[2] \div (kd * kd)
       IN  {<<sp * sd, Fr(kp, kd * sd)>>}

RealCoef(x, s) ==
  IF \E e \in x : e[1] = s THEN (CHOOSE e \in x : e[1] = s)[2] ELSE Zero

RealAdd(x, y) ==
  LET keys == {e[1] : e \in x \cup y}
  IN  {e \in {<<s, RAdd(RealCoef(x, s), RealCoef(y, s))>> : s \in keys} :
         e[2] # Zero}

RealScale(x, q) == {e \in {<<f[1], RMul(f[2], q)>> : f \in x} : e[2] # Zero}

RECURSIVE RealSumSeq(_)
RealSumSeq(s) == IF s = <<>> THEN {} ELSE RealAdd(s[1], RealSumSeq(Tail(s)))

\* ndarray.mean() of a non-empty sequence of reals
RealMean(s) == RealScale(RealSumSeq(s), Fr(1, Len(s)))

\* every term positive, and at least one term
RealPositive(x) == x # {} /\ \A e \in x : RLess(Zero, e[2])

(***************************************************************************)
(* The static metrics.  Each returns [raised, num, seq]: the exception     *)
(* raised ("" when none), the scalar result and the sequence result.       *)
(***************************************************************************)
RECURSIVE Flatten(_)
Flatten(A) == IF A = <<>> THEN <<>> ELSE A[1] \o Flatten(Tail(A))

CanReshape(A, dimensions) ==
  dimensions > 0 /\ (Rows(A) * Cols(A)) % dimensions = 0

\* np.array(A).reshape(-1, dimensions)
Reshape(A, dimensions) ==
  LET flat == Flatten(A)
  IN  Tup([i \in 1..(Len(flat) \div dimensions) |->
         Tup([j \in 1..dimensions |-> flat[(i - 1) * dimensions + j]])])

Square(x) == RMul(x, x)

\* np.square of a matrix
MatSquare(A) ==
  Tup([i \in 1..Rows(A) |-> Tup([j \in 1..Cols(A) |-> Square(A[i][j])])])

\* np.sqrt(np.sum(np.square(p - t), axis=1))
RowDistances(p, t) ==
  LET sq == MatSquare(MatSub(p, t))
  IN  Tup([i \in 1..Rows(p) |-> SqrtR(RSumSeq(sq[i]))])

Returned(num, seq) == [raised |-> "", num |-> num, seq |-> seq]
Raised(e) == [raised |-> e, num |-> {}, seq |-> <<>>]

\* aed with the division by conversion_factor left out
aed_unscaled(predictions, targets, dimensions, conversion_factor) ==
  IF ~(CanReshape(predictions, dimensions) /\ CanReshape(targets, dimensions))
    THEN Raised("ValueError")
    ELSE LET p == Reshape(predictions, dimensions)
             t == Reshape(targets, dimensions)
         IN  Returned(RealMean(RowDistances(p, t)), <<>>)

aed(predictions, targets, dimensions, conversion_factor) ==
  IF ~(CanReshape(predictions, dimensions) /\ CanReshape(targets, dimensions))
    THEN Raised("ValueError")
    ELSE LET p == Reshape(predictions, dimensions)
             t == Reshape(targets, dimensions)
         IN  Returned(RealScale(RealMean(RowDistances(p, t)),
                                RDiv(One, conversion_factor)), <<>>)

eds(predictions, targets, dimensions, conversion_factor) ==
  IF ~(CanReshape(predictions, dimensions) /\ CanReshape(targets, dimensions))
    THEN Raised("ValueError")
    ELSE LET p == Reshape(predictions, dimensions)
             t == Reshape(targets, dimensions)
             d == RowDistances(p, t)
         IN  Returned({}, Tup([i \in 1..Len(d) |->
                               RealScale(d[i], RDiv(One, conversion_factor))]))

\* rmse with the errors averaged without being squared
rmse_unsquared(predictions, targets) ==
  LET d == MatSub(predictions, targets)
      out_errors == Tup([j \in 1..Cols(d) |->
                           RDiv(RSumSeq(Tup([i \in 1..Rows(d) |-> d[i][j]])),
                                Int2R(Rows(d)))])
  IN  Returned(RealOfRat(RDiv(RSumSeq(out_errors), Int2R(Len(out_errors)))),
               <<>>)

rmse(predictions, targets) ==
  LET sq == MatSquare(MatSub(predictions, targets))
      out_errors == Tup([j \in 1..Cols(sq) |->
                           RDiv(RSumSeq(Tup([i \in 1..Rows(sq) |-> sq[i][j]])),
                                Int2R(Rows(sq)))])
  IN  Returned(RealOfRat(RDiv(RSumSeq(out_errors), Int2R(Len(out_errors)))),
               <<>>)

(***************************************************************************)
(* State: one WelmRegressor instance and the outcome of the last call.     *)
(***************************************************************************)
VARIABLES
  status,                  \* "new", "trained", or "failed" (__init__ raised)
  train_mat, t_mat, w_mat,
  num_train_data, num_input_neurons, num_hidden_neuron,
  activation_function, hyper_param_c,
  input_weight, bias_of_hidden_neurons,
  h_mat, beta_mat, trained_output_mat,
  branch,                  \* which solve __build_output_weight_matrix__ ran
  call,                    \* the last call: operation, argument, outcome
  last_projection,         \* argument and result of the last projection
  mcall                    \* the last call of a static metric

fields == <<train_mat, t_mat, w_mat, num_train_data, num_input_neurons,
            num_hidden_neuron, activation_function, hyper_param_c,
            input_weight, bias_of_hidden_neurons, h_mat, beta_mat,
            trained_output_mat>>

vars == <<status, train_mat, t_mat, w_mat, num_train_data, num_input_neurons,
          num_hidden_neuron, activation_function, hyper_param_c,
          input_weight, bias_of_hidden_neurons, h_mat, beta_mat,
          trained_output_mat, branch, call, last_projection, mcall>>

\* an attribute that was never assigned
Unset == <<>>

NoCall ==
  [op |-> "", arg |-> <<>>, raised |-> "", mat |-> <<>>, num |-> {},
   hidden |-> <<>>, built |-> 0, solved |-> 0]

NoMetricCall ==
  [op |-> "", predictions |-> <<>>, targets |-> <<>>, dimensions |-> 0,
   conversion_factor |-> Zero, raised |-> "", num |-> {}, seq |-> <<>>]

\* since: a call other than a projection was made after it;
\* repeated: it repeats, after such calls, the projection made before them
NoProjection ==
  [arg |-> <<>>, mat |-> <<>>, since |-> FALSE, repeated |-> FALSE]

\* the record after a call that returns no projection
Later(lp) ==
  IF lp = NoProjection THEN lp
  ELSE [lp EXCEPT !.since = TRUE, !.repeated = FALSE]

\* the record after a projection of test_mat that returned output_mat
Record(lp, test_mat, output_mat) ==
  [arg |-> test_mat, mat |-> output_mat, since |-> FALSE,
   repeated |-> lp.since /\ lp.arg = test_mat]

Init ==
  /\ status = "new"
  /\ train_mat = Unset /\ t_mat = Unset /\ w_mat = Unset
  /\ num_train_data = 0 /\ num_input_neurons = 0 /\ num_hidden_neuron = 0
  /\ activation_function = "" /\ hyper_param_c = Zero
  /\ input_weight = Unset /\ bias_of_hidden_neurons = Unset
  /\ h_mat = Unset /\ beta_mat = Unset /\ trained_output_mat = Unset
  /\ branch = ""
  /\ call = NoCall
  /\ last_projection = NoProjection
  /\ mcall = NoMetricCall

(***************************************************************************)
(* WelmRegressor.__init__                                                  *)
(***************************************************************************)
\* a row check that only asks for enough input rows
RowCheck_ge(tm, om) == Rows(tm) >= Rows(om)

\* assert self.train_mat.shape[0] is output_mat.shape[0]
RowCheck(tm, om) == IsSameInt(Rows(tm), Rows(om))

\* the attributes when the constructor raises at the row check
FailedAtRowCheck(tm_arg, om_arg) ==
  [raised |-> "AssertionError",
   train_mat |-> tm_arg, t_mat |-> om_arg, w_mat |-> Unset,
   num_train_data |-> 0, num_input_neurons |-> 0,
   num_hidden_neuron |-> 0, activation_function |-> "",
   hyper_param_c |-> Zero, input_weight |-> Unset,
   bias_of_hidden_neurons |-> Unset, h_mat |-> Unset,
   beta_mat |-> Unset, trained_output_mat |-> Unset,
   branch |-> ""]

\* lines 82-87: beta is solved and the trained output cached
Solved(built, sol) ==
  [built EXCEPT !.raised = "", !.beta_mat = sol.beta,
     !.trained_output_mat = MatMul(built.h_mat, sol.beta),
     !.branch = sol.branch]

\* lines 78-82: H is built, then the solve runs or rejects its operands
WithHidden(drawn) ==
  IF ~SolveShapesOk(drawn.h_mat, drawn.w_mat, drawn.t_mat) THEN drawn
  ELSE Solved(drawn,
              __build_output_weight_matrix__(
                drawn.h_mat, drawn.w_mat, drawn.t_mat, drawn.hyper_param_c,
                drawn.num_train_data, drawn.num_hidden_neuron))

\* lines 46-78: the attributes assigned up to the hidden matrix
Drawn(tm_arg, om_arg, act, num_hidden, c, w, rnd) ==
  [raised |-> "ValueError",
   train_mat |-> tm_arg, t_mat |-> om_arg, w_mat |-> w,
   num_train_data |-> Rows(tm_arg), num_input_neurons |-> Cols(tm_arg),
   num_hidden_neuron |-> num_hidden, activation_function |-> act,
   hyper_param_c |-> c, input_weight |-> rnd.input_weight,
   bias_of_hidden_neurons |-> rnd.bias_of_hidden_neurons,
   h_mat |-> __build_hidden_layer_output_matrix__(
               rnd.input_weight, rnd.bias_of_hidden_neurons, act, tm_arg),
   beta_mat |-> Unset, trained_output_mat |-> Unset, branch |-> ""]

\* the whole constructor: the values of the attributes when it returns or
\* raises, and the exception it raises ("" when it returns)
Construct(tm_arg, om_arg, act, num_hidden, c, weight_mat, seed) ==
  IF ~RowCheck(tm_arg, om_arg) THEN FailedAtRowCheck(tm_arg, om_arg)
  ELSE WithHidden(
         Drawn(tm_arg, om_arg, act, num_hidden, c,
               IF weight_mat = None THEN Identity(Rows(tm_arg))
               ELSE weight_mat,
               __get_input_weight_and_bias__(num_hidden, Cols(tm_arg), seed)))

\* the weight_mat argument: None, or an M x M diagonal matrix
WeightArg(m, kind) == IF kind = 0 THEN None ELSE DiagWeight(m, kind)

__init__ ==
  /\ status = "new"
  /\ \E tm_arg \in TrainMats, om_arg \in OutputMats, act \in ActFunc,
        num_hidden \in HiddenSizes, s \in Settings :
       \E r \in {Construct(tm_arg, om_arg, act, num_hidden, s.c,
                           WeightArg(Rows(tm_arg), s.kind), s.seed)} :
           /\ status' = IF r.raised = "" THEN "trained" ELSE "failed"
           /\ train_mat' = r.train_mat
           /\ t_mat' = r.t_mat
           /\ w_mat' = r.w_mat
           /\ num_train_data' = r.num_train_data
           /\ num_input_neurons' = r.num_input_neurons
           /\ num_hidden_neuron' = r.num_hidden_neuron
           /\ activation_function' = r.activation_function
           /\ hyper_param_c' = r.hyper_param_c
           /\ input_weight' = r.input_weight
           /\ bias_of_hidden_neurons' = r.bias_of_hidden_neurons
           /\ h_mat' = r.h_mat
           /\ beta_mat' = r.beta_mat
           /\ trained_output_mat' = r.trained_output_mat
           /\ branch' = r.branch
           /\ call' = [NoCall EXCEPT !.op = "__init__", !.raised = r.raised,
                         !.built = IF r.raised = "AssertionError" THEN 0 ELSE 1,
                         !.solved = IF r.raised = "" THEN 1 ELSE 0]
  /\ UNCHANGED <<last_projection, mcall>>

(***************************************************************************)
(* The public methods of a trained instance.                               *)
(***************************************************************************)
\* a column check that only asks for enough query columns
ColumnCheck_le(tm, test_mat) == Cols(tm) <= Cols(test_mat)

\* assert self.train_mat.shape[1] == test_mat.shape[1]
ColumnCheck(tm, test_mat) == Cols(tm) = Cols(test_mat)

\* the hidden matrix of a query, built with the weights of the instance
HiddenOf(test_mat) ==
  __build_hidden_layer_output_matrix__(
    input_weight, bias_of_hidden_neurons, activation_function, test_mat)

\* the value get_projected returns when its assertion passes
Projected(test_mat) == MatMul(HiddenOf(test_mat), beta_mat)

\* get_projected keeping the hidden matrix of the query in self.h_mat
get_projected_storing_h(test_mat) ==
  /\ status = "trained"
  /\ ColumnCheck(train_mat, test_mat)
  /\ h_mat' = HiddenOf(test_mat)
  /\ call' = [NoCall EXCEPT !.op = "get_projected", !.arg = test_mat,
                !.mat = MatMul(h_mat', beta_mat), !.hidden = h_mat',
                !.built = 1]
  /\ last_projection' = Record(last_projection, test_mat, call'.mat)
  /\ UNCHANGED <<status, train_mat, t_mat, w_mat, num_train_data,
                 num_input_neurons, num_hidden_neuron, activation_function,
                 hyper_param_c, input_weight, bias_of_hidden_neurons,
                 beta_mat, trained_output_mat, branch, mcall>>

get_projected(test_mat) ==
  /\ status = "trained"
  /\ IF ~ColumnCheck(train_mat, test_mat)
       THEN /\ call' = [NoCall EXCEPT !.op = "get_projected",
                          !.arg = test_mat, !.raised = "AssertionError"]
            /\ last_projection' = Later(last_projection)
       ELSE IF ~CanMul(input_weight, Transpose(test_mat))
       THEN \* np.dot rejects the shapes
            /\ call' = [NoCall EXCEPT !.op = "get_projected",
                          !.arg = test_mat, !.raised = "ValueError"]
            /\ last_projection' = Later(last_projection)
       ELSE LET h_mat_test == HiddenOf(test_mat)
                output_mat == MatMul(h_mat_test, beta_mat)
            IN  /\ call' = [NoCall EXCEPT !.op = "get_projected",
                              !.arg = test_mat, !.mat = output_mat,
                              !.hidden = h_mat_test, !.built = 1]
                /\ last_projection' =
                     Record(last_projection, test_mat, output_mat)
  /\ UNCHANGED <<status, fields, branch, mcall>>

\* get_trained_accuracy scoring the targets against themselves
get_trained_accuracy_of_targets ==
  /\ status = "trained"
  /\ LET r == rmse(t_mat, t_mat)
     IN  call' = [NoCall EXCEPT !.op = "get_trained_accuracy",
                    !.raised = r.raised, !.num = r.num]
  /\ last_projection' = Later(last_projection)
  /\ UNCHANGED <<status, fields, branch, mcall>>

get_trained_accuracy ==
  /\ status = "trained"
  /\ LET r == rmse(trained_output_mat, t_mat)
     IN  call' = [NoCall EXCEPT !.op = "get_trained_accuracy",
                    !.raised = r.raised, !.num = r.num]
  /\ last_projection' = Later(last_projection)
  /\ UNCHANGED <<status, fields, branch, mcall>>

get_trained_average_distance ==
  /\ status = "trained"
  /\ LET r == aed(trained_output_mat, t_mat, 2, One)
     IN  call' = [NoCall EXCEPT !.op = "get_trained_average_distance",
                    !.raised = r.raised, !.num = r.num]
  /\ last_projection' = Later(last_projection)
  /\ UNCHANGED <<status, fields, branch, mcall>>

Next ==
  \/ __init__
  \/ \E test_mat \in TestMats(Cols(train_mat)) \cup {train_mat} :
       get_projected(test_mat)
  \/ get_trained_accuracy
  \/ get_trained_average_distance

Spec == Init /\ [][Next]_vars

(***************************************************************************)
(* The static metrics called on their own: aed, eds and rmse applied to    *)
(* prediction/target pairs of equal shape.                                 *)
(***************************************************************************)
MetricVals == <<Int2R(0), Int2R(1), Fr(3, 2), Int2R(0 - 2), Int2R(4)>>

MetricMats(r, c) == {Gen(r, c, seed, MetricVals) : seed \in 0..2}

MetricShapes == (1..MaxM) \X (1..MaxD)

Dimensions == 1..MaxD

ConversionFactors == {Int2R(1), Int2R(2), Fr(1, 2), Int2R(0 - 1)}

\* the arguments of a call: a pair of equal shape, dimensions and
\* conversion_factor
MetricArgs ==
  UNION {{[NoMetricCall EXCEPT !.predictions = p, !.targets = t,
             !.dimensions = dimensions,
             !.conversion_factor = conversion_factor] :
            p \in MetricMats(sh[1], sh[2]), t \in MetricMats(sh[1], sh[2]),
            dimensions \in Dimensions,
            conversion_factor \in ConversionFactors} : sh \in MetricShapes}

MetricInit ==
  /\ status = "new"
  /\ train_mat = Unset /\ t_mat = Unset /\ w_mat = Unset
  /\ num_train_data = 0 /\ num_input_neurons = 0 /\ num_hidden_neuron = 0
  /\ activation_function = "" /\ hyper_param_c = Zero
  /\ input_weight = Unset /\ bias_of_hidden_neurons = Unset
  /\ h_mat = Unset /\ beta_mat = Unset /\ trained_output_mat = Unset
  /\ branch = ""
  /\ call = NoCall
  /\ last_projection = NoProjection
  /\ mcall \in MetricArgs

MetricResult(op, r) ==
  [mcall EXCEPT !.op = op, !.raised = r.raised, !.num = r.num,
     !.seq = r.seq]

call_aed ==
  /\ mcall.op = ""
  /\ mcall' = MetricResult("aed", aed(mcall.predictions, mcall.targets,
                                      mcall.dimensions,
                                      mcall.conversion_factor))
  /\ UNCHANGED <<status, fields, branch, call, last_projection>>

call_eds ==
  /\ mcall.op = ""
  /\ mcall' = MetricResult("eds", eds(mcall.predictions, mcall.targets,
                                      mcall.dimensions,
                                      mcall.conversion_factor))
  /\ UNCHANGED <<status, fields, branch, call, last_projection>>

call_rmse ==
  /\ mcall.op = ""
  /\ mcall' = MetricResult("rmse", rmse(mcall.predictions, mcall.targets))
  /\ UNCHANGED <<status, fields, branch, call, last_projection>>

MetricNext == call_aed \/ call_eds \/ call_rmse

MetricSpec == MetricInit /\ [][MetricNext]_vars

(***************************************************************************)
(* Properties.                                                             *)
(***************************************************************************)
Dot(u, v) == RSumSeq(Tup([k \in 1..Len(u) |-> RMul(u[k], v[k])]))

\* H[i,j] = activation(dot(input_weight[j,:], X[i,:]) + bias[j])
HiddenAsSpecified(iw, bias, act, data_mat, h) ==
  /\ Rows(h) = Rows(data_mat)
  /\ Cols(h) = Rows(iw)
  /\ \A i \in 1..Rows(data_mat) : \A j \in 1..Rows(iw) :
       h[i][j] = Activation(act, RAdd(Dot(iw[j], data_mat[i]), bias[j][1]))

\* A is square with nonzero determinant: the constant coefficient of its
\* characteristic polynomial is nonzero
Nonsingular(A) == FLSeq(A, Rows(A))[Rows(A)].c # Zero

\* the M x M system of the wide-regime solve
WideSystem(h, w, c) ==
  MatAdd(MatMul(MatMul(w, h), Transpose(h)),
         MatScale(Identity(Rows(h)), RDiv(One, c)))

\* C1: for every X and T with equal row counts construction succeeds, and
\* get_projected(X) returns a matrix of the shape of T.
C1_ConstructionSucceeds ==
  /\ (status # "new" /\ Rows(train_mat) = Rows(t_mat)) => status = "trained"
  /\ (call.op = "get_projected" /\ call.arg = train_mat) =>
       (call.raised = "" /\ Shape(call.mat) = Shape(t_mat))

\* C2: every hidden matrix, of the training input and of every query, has
\* H[i,j] = activation(dot(input_weight[j,:], X[i,:]) + bias[j]) in every
\* row i: the bias of neuron j is added for every sample.
C2_BiasAddedToEveryRow ==
  /\ status = "trained" =>
       HiddenAsSpecified(input_weight, bias_of_hidden_neurons,
                         activation_function, train_mat, h_mat)
  /\ (call.op = "get_projected" /\ call.raised = "") =>
       HiddenAsSpecified(input_weight, bias_of_hidden_neurons,
                         activation_function, call.arg, call.hidden)

\* C3: when X and T have different row counts construction fails at the
\* row-count check: no weights are drawn, no H is built, no beta is solved,
\* and the instance never reaches the trained state.
C3_MismatchFailsAtRowCheck ==
  (status # "new" /\ Rows(train_mat) # Rows(t_mat)) =>
    /\ status = "failed"
    /\ call.op = "__init__" /\ call.raised = "AssertionError"
    /\ call.built = 0 /\ call.solved = 0
    /\ input_weight = Unset /\ bias_of_hidden_neurons = Unset
    /\ w_mat = Unset /\ h_mat = Unset /\ beta_mat = Unset
    /\ trained_output_mat = Unset /\ branch = ""

C3_Witness ==
  /\ status = "failed" /\ call.raised = "AssertionError"
  /\ Rows(train_mat) = 2 /\ Rows(t_mat) = 1

\* C4: the wide-regime solve runs exactly when M < L and the tall-regime
\* solve exactly when M >= L (so M = L is tall); exactly one of them runs.
C4_BranchByShape ==
  status = "trained" =>
    /\ branch \in {"wide", "tall"}
    /\ branch = "wide" <=> Rows(train_mat) < num_hidden_neuron
    /\ branch = "tall" <=> Rows(train_mat) >= num_hidden_neuron
    /\ branch = "wide" =>
         beta_mat = __beta_l_is_greater_than_m__(h_mat, w_mat, t_mat,
                                                 hyper_param_c)
    /\ branch = "tall" =>
         beta_mat = __beta_m_is_greater_than_l__(h_mat, w_mat, t_mat,
                                                 hyper_param_c)

C4_Witness ==
  /\ status = "trained" /\ branch = "tall"
  /\ Rows(train_mat) = num_hidden_neuron /\ num_hidden_neuron = 2

\* C5: once trained, no call changes a field of the model, and a projection
\* of the query of the last projection returns what that one did, whatever
\* was called in between.
C5_MethodsDoNotMutate ==
  [][status = "trained" =>
       /\ status' = "trained"
       /\ fields' = fields
       /\ branch' = branch
       /\ (call'.op = "get_projected" /\ call'.raised = ""
             /\ last_projection # NoProjection
             /\ call'.arg = last_projection.arg) =>
            call'.mat = last_projection.mat]_vars

C5_Witness ==
  /\ status = "trained"
  /\ call.op = "get_projected" /\ call.raised = ""
  /\ call.arg = last_projection.arg
  /\ last_projection.repeated

\* C6: get_projected with a query whose column count differs from that of
\* the training input fails at the column check: no hidden matrix is built,
\* no prediction is returned, and the model is unchanged.
C6_ColumnMismatchRejected ==
  [][(status = "trained" /\ call' # call /\ call'.op = "get_projected"
        /\ Cols(call'.arg) # Cols(train_mat)) =>
       /\ call'.raised = "AssertionError"
       /\ call'.built = 0 /\ call'.hidden = <<>> /\ call'.mat = <<>>
       /\ fields' = fields /\ status' = status]_vars

C6_Witness ==
  /\ status = "trained"
  /\ call.op = "get_projected" /\ call.raised = "AssertionError"
  /\ Cols(call.arg) # Cols(train_mat)

\* C7: for a pair of equal shape whose entry count is a multiple of
\* dimensions, aed is the arithmetic mean of the sequence eds returns for
\* the same arguments, and eds returns one distance per reshaped row.
C7_AedIsMeanOfEds ==
  LET p == mcall.predictions
      t == mcall.targets
      e == eds(p, t, mcall.dimensions, mcall.conversion_factor)
  IN  /\ (mcall.op = "aed" /\ CanReshape(p, mcall.dimensions)) =>
           /\ mcall.raised = "" /\ e.raised = ""
           /\ mcall.num = RealMean(e.seq)
      /\ (mcall.op = "eds" /\ CanReshape(p, mcall.dimensions)) =>
           /\ mcall.raised = ""
           /\ Len(mcall.seq) * mcall.dimensions = Rows(p) * Cols(p)

C7_Witness ==
  /\ mcall.op = "aed" /\ mcall.raised = ""
  /\ mcall.dimensions = 2 /\ Rows(mcall.predictions) = 2
  /\ Cols(mcall.predictions) = 2
  /\ mcall.conversion_factor = Int2R(2)
  /\ Cardinality(mcall.num) = 2

\* C8: for every pair of equal shape, rmse is 0 exactly when the two
\* matrices are equal entry by entry and is positive otherwise, and so is
\* aed (called with its default dimensions and conversion factor).
C8_ZeroIffEqual ==
  LET p == mcall.predictions
      t == mcall.targets
  IN  /\ mcall.op = "rmse" =>
           /\ mcall.raised = ""
           /\ mcall.num = {} <=> p = t
           /\ p # t => RealPositive(mcall.num)
      /\ (mcall.op = "aed" /\ mcall.dimensions = 2
            /\ mcall.conversion_factor = One) =>
           /\ mcall.raised = ""
           /\ mcall.num = {} <=> p = t
           /\ p # t => RealPositive(mcall.num)

\* C8 (amended): for every pair of equal shape, rmse is 0 exactly when the
\* two matrices are equal entry by entry and is positive otherwise; aed
\* (default dimensions 2 and conversion factor 1) is so for every pair whose
\* entry count is a multiple of dimensions, and raises ValueError for the
\* other pairs.
C8_ZeroIffEqualWhenReshapable ==
  LET p == mcall.predictions
      t == mcall.targets
  IN  /\ mcall.op = "rmse" =>
           /\ mcall.raised = ""
           /\ mcall.num = {} <=> p = t
           /\ p # t => RealPositive(mcall.num)
      /\ (mcall.op = "aed" /\ mcall.dimensions = 2
            /\ mcall.conversion_factor = One) =>
           IF CanReshape(p, 2)
             THEN /\ mcall.raised = ""
                  /\ mcall.num = {} <=> p = t
                  /\ p # t => RealPositive(mcall.num)
             ELSE mcall.raised = "ValueError"

C8_Witness ==
  /\ mcall.op = "aed" /\ mcall.raised = ""
  /\ mcall.dimensions = 2 /\ mcall.conversion_factor = One
  /\ mcall.predictions = mcall.targets
  /\ Rows(mcall.predictions) = 2
  /\ mcall.num = {}

\* C9: for the same H, W, T and C the wide-regime formula and the
\* tall-regime formula give the same beta, hence the same H * beta.
C9_BranchesAgree ==
  status = "trained" =>
    __beta_l_is_greater_than_m__(h_mat, w_mat, t_mat, hyper_param_c)
      = __beta_m_is_greater_than_l__(h_mat, w_mat, t_mat, hyper_param_c)

\* no sample weight is negative
NonnegativeWeights(w) == \A i \in 1..Rows(w) : ~RLess(w[i][i], Zero)

\* C9 (amended): for the H, W, T and C of every model the constructor
\* returns, whenever the regularized system W*H*H^T + I_M/C is nonsingular,
\* the wide-regime formula and the tall-regime formula give the same beta
\* (L rows, D columns), hence the same H * beta; and the system is
\* nonsingular whenever no sample weight is negative.
C9_BranchesAgreeWhenNonsingular ==
  /\ (status = "trained" /\ call.op = "__init__"
        /\ Nonsingular(WideSystem(h_mat, w_mat, hyper_param_c)))
       => LET wide == __beta_l_is_greater_than_m__(h_mat, w_mat, t_mat,
                                                   hyper_param_c)
              tall == __beta_m_is_greater_than_l__(h_mat, w_mat, t_mat,
                                                   hyper_param_c)
          IN  /\ wide = tall
              /\ Shape(wide) = <<num_hidden_neuron, Cols(t_mat)>>
              /\ beta_mat = wide
              /\ MatMul(h_mat, wide) = MatMul(h_mat, tall)
  /\ (status = "trained" /\ call.op = "__init__"
        /\ NonnegativeWeights(w_mat))
       => Nonsingular(WideSystem(h_mat, w_mat, hyper_param_c))

C9_Witness ==
  /\ status = "trained" /\ call.op = "__init__"
  /\ Nonsingular(WideSystem(h_mat, w_mat, hyper_param_c))
  /\ w_mat = DiagWeight(2, 2) /\ num_hidden_neuron = 3
  /\ \E i \in 1..Rows(beta_mat) : beta_mat[i][1] # Zero

\* C10: the cached trained_output_mat is h_mat * beta_mat and is what
\* get_projected returns for the training input; the two accessors return
\* rmse and aed of that projection against t_mat, and build no hidden
\* matrix and solve nothing.
C10_CacheIsProjectionOfTraining ==
  status = "trained" =>
    /\ trained_output_mat = MatMul(h_mat, beta_mat)
    /\ trained_output_mat = Projected(train_mat)
    /\ call.op = "get_trained_accuracy" =>
         LET r == rmse(Projected(train_mat), t_mat)
         IN  /\ call.raised = r.raised /\ call.num = r.num
             /\ call.built = 0 /\ call.solved = 0
    /\ call.op = "get_trained_average_distance" =>
         LET r == aed(Projected(train_mat), t_mat, 2, One)
         IN  /\ call.raised = r.raised /\ call.num = r.num
             /\ call.built = 0 /\ call.solved = 0

C10_Witness ==
  /\ status = "trained"
  /\ call.op = "get_trained_average_distance" /\ call.raised = ""
  /\ call.num # {}
  /\ Rows(train_mat) = 2

====
